---- MODULE Spec2Model ----
(***************************************************************************)
(* Model of nessie's out-of-fold evaluation pipeline (nessie/evaluation.py):*)
(* the fold splitter, the cross-validation orchestrator in its flat and    *)
(* ragged variants and the repeated-probability sampler, together with two *)
(* detectors exercised by tests/test_methods.py.                           *)
(*                                                                         *)
(* Indices are 0-based as in the source.  Labels are the integers          *)
(* 1..NumLabels, ordered as the label strings sort.  A probability row is  *)
(* represented by the classes its columns stand for, a prediction row by   *)
(* the fold and the position of the returned row it was copied from.       *)
(***************************************************************************)
EXTENDS Integers, Sequences, FiniteSets, TLC

VARIABLES
    variant,            \* "flat": run, "ragged": run_for_ragged
    n_splits,           \* the n_splits argument / self._n_splits
    num_repetitions,    \* self._num_repetitions: None or Some(r)
    has_dropout,        \* what model.has_dropout() answers
    y_noisy,            \* flat: sequence of labels; ragged: sequence of label sequences
    pc,                 \* position of the orchestrator
    err,                \* the exception that ended the run, "" when none
    folds,              \* the (train_indices, eval_indices) pairs of kf.split
    fold,               \* index i of the fold loop
    le,                 \* model.label_encoder().classes_
    predictions,        \* Result.predictions, row -> <<>> or <<fold, source row>>
    probabilities,      \* Result.probabilities, row -> the matrix columns written to it
    rep_allocated,      \* Result.repeated_probabilities is not None
    repeated_probabilities, \* row -> the matrix columns written to it
    pred_writes,        \* row -> number of folds that wrote it in predictions
    proba_writes,       \* row -> number of folds that wrote it in probabilities
    rep_writes,         \* row -> number of folds that wrote it in repeated_probabilities
    sampler_calls,      \* fold -> number of sampler invocations in that fold
    use_dropout_calls,  \* number of model.use_dropout calls so far
    fit_calls,          \* the train_indices of every model.fit call, in order
    predict_calls,      \* the eval_indices of every model.predict call, in order
    result_le,          \* Result.le once the Result is returned
    spc,                \* position of the repeated-probability sampler
    T,                  \* the sampler's num_repetitions / T argument
    t,                  \* the sampler's loop index
    samples,            \* the list the sampler appends y_probs_eval_again to
    seed,               \* the global random seed last set by set_my_seed
    dropout,            \* the mode last set by model.use_dropout
    warnings,           \* number of warnings.warn calls
    returned,           \* the array the sampler returns, instance -> repetition -> value
    calls,              \* the sampler's calls of set_my_seed and of the model, in order
    dpc,                \* position of a detector's score call
    votes,              \* BordaCount: the voters x candidates matrix
    consensus,          \* BordaCount.score's result, one score per candidate
    ranking,            \* the candidates' ranks by descending consensus score
    texts,              \* MajorityLabelPerSurfaceFormBaseline: the surface forms
    labels,             \* MajorityLabelPerSurfaceFormBaseline: the labels
    flags               \* MajorityLabelPerSurfaceFormBaseline.score's result

inputs == <<variant, n_splits, num_repetitions, has_dropout, y_noisy>>
result == <<predictions, probabilities, rep_allocated, repeated_probabilities, result_le>>
counters == <<pred_writes, proba_writes, rep_writes, sampler_calls, use_dropout_calls,
              fit_calls, predict_calls>>
cv == <<inputs, pc, err, folds, fold, le, result, counters>>
sampler == <<spc, T, t, samples, seed, dropout, warnings, returned, calls>>
detector == <<dpc, votes, consensus, ranking, texts, labels, flags>>
vars == <<cv, sampler, detector>>

(***************************************************************************)
(* Bounds of the model                                                     *)
(***************************************************************************)
MaxN == 3          \* instances (sequences in the ragged variant)
MaxK == 2          \* fold counts 0..MaxK
MaxRep == 1        \* the positive num_repetitions
NumLabels == 2     \* distinct label strings
MaxFlat == 3       \* sub-units over all sequences of a ragged input
MaxT == 3          \* repetitions asked of the sampler
SampleLen == 1     \* entries of one flattened probability sample
MaxVoters == 2     \* rows of a vote matrix
MaxCands == 3      \* columns of a vote matrix
MaxVote == 2       \* votes are 1..MaxVote
MaxTokens == 4     \* positions of a flat token sequence
NumForms == 2      \* distinct surface forms

Labels == 1..NumLabels
None == <<>>
Some(x) == <<x>>

(***************************************************************************)
(* Helpers                                                                 *)
(***************************************************************************)
RECURSIVE SortedSeq(_)
SortedSeq(S) ==
    IF S = {} THEN <<>>
    ELSE LET m == CHOOSE x \in S : \A z \in S : x <= z
         IN <<m>> \o SortedSeq(S \ {m})

SeqSet(s) == {s[i] : i \in 1..Len(s)}

RECURSIVE SumSeq(_)
SumSeq(s) == IF s = <<>> THEN 0 ELSE Head(s) + SumSeq(Tail(s))

RECURSIVE Flatten(_)
Flatten(ss) == IF ss = <<>> THEN <<>> ELSE Head(ss) \o Flatten(Tail(ss))

\* np.arange(len(X))
arange(n) == SortedSeq(0..(n - 1))

\* a[idx] for a 0-based array a and a sequence idx of indices
Take(a, idx) == [p \in 1..Len(idx) |-> a[idx[p]]]

Size(a) == Cardinality(DOMAIN a)

(***************************************************************************)
(* Fold splitter: get_cross_validator and the split of the validator it    *)
(* returns.  A shuffle with a seeded generator is any permutation, so the  *)
(* splitter is the set of fold assignments test_folds (index -> fold) that *)
(* a shuffle can produce.                                                  *)
(***************************************************************************)

\* KFold._iter_test_indices: the first n % k folds hold n // k + 1 indices
FoldSize(n, k, i) == (n \div k) + (IF i < n % k THEN 1 ELSE 0)

\* KFold(n_splits = k, shuffle = True): every assignment with those fold sizes
KFoldTestFolds(n, k) ==
    {tf \in [0..(n - 1) -> 0..(k - 1)] :
        \A i \in 0..(k - 1) : Cardinality({j \in 0..(n - 1) : tf[j] = i}) = FoldSize(n, k, i)}

\* StratifiedKFold._make_test_folds, the classes encoded by first appearance
FirstIdx(y, c) == CHOOSE j \in DOMAIN y : y[j] = c /\ \A h \in DOMAIN y : y[h] = c => j <= h
ClassCount(y, c) == Cardinality({j \in DOMAIN y : y[j] = c})
ClassesOf(y) == {y[j] : j \in DOMAIN y}
\* position of the first member of class c in y_order = np.sort(y_encoded)
CumBefore(y, c) == Cardinality({j \in DOMAIN y : FirstIdx(y, y[j]) < FirstIdx(y, c)})
\* allocation[i, c] = np.bincount(y_order[i::n_splits])[c]
Allocation(y, k, i, c) ==
    Cardinality({p \in CumBefore(y, c)..(CumBefore(y, c) + ClassCount(y, c) - 1) : p % k = i})

StratifiedTestFolds(y, k) ==
    {tf \in [DOMAIN y -> 0..(k - 1)] :
        \A c \in ClassesOf(y) : \A i \in 0..(k - 1) :
            Cardinality({j \in DOMAIN y : y[j] = c /\ tf[j] = i}) = Allocation(y, k, i, c)}

\* _BaseKFold.split rejects n_splits > n_samples; StratifiedKFold rejects a
\* label array in which every class has fewer than n_splits members
SplitRaises(y, k, stratified) ==
    /\ k > 1
    /\ \/ k > Size(y)
       \/ stratified /\ \A c \in ClassesOf(y) : k > ClassCount(y, c)

\* PairsOf with the folds numbered from 1: fold 0 is never an eval set
PairsOfFromOne(tf, k) ==
    [i \in 1..k |->
        [train |-> SortedSeq({j \in DOMAIN tf : tf[j] # i}),
         eval  |-> SortedSeq({j \in DOMAIN tf : tf[j] = i})]]

\* the (train_indices, eval_indices) pairs of one fold assignment
PairsOf(tf, k) ==
    [i \in 1..k |->
        [train |-> SortedSeq({j \in DOMAIN tf : tf[j] # i - 1}),
         eval  |-> SortedSeq({j \in DOMAIN tf : tf[j] = i - 1})]]

\* a single pair that evaluates on every index and trains on none
SingeSplitCVNoTrain(n) == <<[train |-> <<>>, eval |-> arange(n)]>>

\* SingeSplitCV.split: one pair, both components np.arange(len(X))
SingeSplitCV(n) == <<[train |-> arange(n), eval |-> arange(n)]>>

\* every sequence of pairs kf.split(X, y) can yield, kf = get_cross_validator(k, stratified)
get_cross_validator(y, k, stratified) ==
    IF k > 1
    THEN IF stratified
         THEN {PairsOf(tf, k) : tf \in StratifiedTestFolds(y, k)}
         ELSE {PairsOf(tf, k) : tf \in KFoldTestFolds(Size(y), k)}
    ELSE {SingeSplitCV(Size(y))}

(***************************************************************************)
(* Ragged inputs                                                           *)
(***************************************************************************)
\* flat index of the first sub-unit of sequence j
Offset(y, j) == SumSeq([h \in 1..j |-> Len(y[h - 1])])
\* GroupedIndices for sequences taken to be all as long as sequence j
GroupedIndicesRegular(y) == [j \in DOMAIN y |-> [p \in 1..Len(y[j]) |-> j * Len(y[j]) + p - 1]]
\* grouped_indices = ak.unflatten(np.arange(num_samples), sizes)
GroupedIndices(y) == [j \in DOMAIN y |-> [p \in 1..Len(y[j]) |-> Offset(y, j) + p - 1]]
\* ak.flatten(grouped_indices[eval_indices])
ScoreIndices(y, eval) == Flatten(Take(GroupedIndices(y), eval))
\* ak.flatten(y_noisy) as a 0-based array
FlatLabels(y) ==
    LET f == Flatten([h \in 1..Size(y) |-> y[h - 1]])
    IN [p \in 0..(Len(f) - 1) |-> f[p + 1]]

(***************************************************************************)
(* The Model collaborator (nessie.models), as the orchestrator sees it     *)
(***************************************************************************)
\* model.fit: the label encoder holds the sorted distinct training labels
ModelFit(y_train) == SortedSeq(SeqSet(y_train))

\* row counts a predict or predict_proba call of a text classifier may return
\* for m inputs: one each, a single row, or one too many
RowChoices(m) == {1, m, m + 1}

(***************************************************************************)
(* CrossValidationHelper                                                   *)
(***************************************************************************)
Ragged == variant = "ragged"
\* np.asarray(y_noisy), or ak.flatten(y_noisy) in run_for_ragged
Y == IF Ragged THEN FlatLabels(y_noisy) ELSE y_noisy
num_samples == Size(Y)
\* num_labels = len(np.unique(y_noisy))
num_labels == Cardinality(ClassesOf(Y))

\* should_compute_repeated_probabilities without asking the model
should_compute_ignoring_model == num_repetitions # None /\ num_repetitions[1] > 0

should_compute_repeated_probabilities ==
    num_repetitions # None /\ num_repetitions[1] > 0 /\ has_dropout

train_indices == folds[fold + 1].train
\* eval_indices taken from the first pair in every fold
eval_indices_first == folds[1].eval
eval_indices == folds[fold + 1].eval
\* the rows of the Result arrays this fold writes
score_indices == IF Ragged THEN ScoreIndices(y_noisy, eval_indices) ELSE eval_indices
\* y_train as the flat list of labels the model is fitted on
y_train == IF Ragged THEN Flatten(Take(y_noisy, train_indices)) ELSE Take(y_noisy, train_indices)

Empty(n) == [i \in 0..(n - 1) |-> <<>>]
Zeros(n) == [i \in 0..(n - 1) |-> 0]

\* numpy's a[idx] = v for v of r rows: r = len(idx), or one row broadcast
RowsFit(r, m) == r = m \/ r = 1
\* the same for the trailing class axis
ColsFit(c, n) == c = n \/ c = 1

\* a[idx] = v, row idx[p] taking v[p], or v[1] when v is broadcast
Scatter(a, idx, v) ==
    [i \in DOMAIN a |->
        IF \E p \in 1..Len(idx) : idx[p] = i
        THEN LET p == CHOOSE q \in 1..Len(idx) : idx[q] = i /\ \A h \in (q + 1)..Len(idx) : idx[h] # i
             IN IF Len(v) = Len(idx) THEN v[p] ELSE v[1]
        ELSE a[i]]

\* the write counters after a[idx] = v
Bump(w, idx) == [i \in DOMAIN w |-> w[i] + Cardinality({p \in 1..Len(idx) : idx[p] = i})]

\* the classes the columns of a written row stand for: a matrix of
\* n columns keeps its own, a single column is repeated over the n columns
ColumnsWritten(classes, c, n) == IF c = n THEN classes ELSE [j \in 1..n |-> classes[1]]

\* a row of a probability matrix of c columns standing for those classes
Row(c, classes) == [cols |-> c, classes |-> classes]
\* a row of np.empty
Unwritten == Row(0, <<>>)

Raise(e) == pc' = "raised" /\ err' = e

\* column counts a predict_proba call may return: one per class of the fitted
\* encoder, or one too many; a matrix without rows has the encoder's columns
ColChoices(classes, rq) == IF rq = 0 THEN {Len(classes)} ELSE {Len(classes), Len(classes) + 1}
\* the rows of pred_eval and of probas_eval in a fold that writes m rows; a
\* sequence tagger is taken to answer with one row for every sub-unit
PredRowChoices(m) == IF Ragged THEN {m} ELSE RowChoices(m)
ProbaRowChoices(m) == IF Ragged THEN {m} ELSE RowChoices(m)

\* assert probas_eval.shape == (len(pred_eval), num_classes); in run_for_ragged
\* assert ak.all(ak.flatten(ak.count(probas_eval, axis=-1)) == num_classes)
ShapeAsserted(classes, rp, rq, c) ==
    IF Ragged THEN rq = 0 \/ c = Len(classes) ELSE rq = rp /\ c = Len(classes)

\* pred_eval and probas_eval as the rows that are scattered into the Result
PredValues(rp) == [p \in 1..rp |-> <<fold, p>>]
ProbaValues(classes, rq, c, L) == [p \in 1..rq |-> Row(c, ColumnsWritten(classes, c, L))]

\* an assertion that lets a fold count of 0 through
NonNegativeSplits(k) == k >= 0
\* assert n_splits >= 1
ValidSplits(k) == k >= 1

\* CrossValidationHelper.__init__
Construct ==
    /\ pc = "new"
    /\ IF ValidSplits(n_splits) THEN pc' = "start" /\ err' = err ELSE Raise("AssertionError")
    /\ UNCHANGED <<inputs, folds, fold, le, result, counters, sampler, detector>>

\* run / run_for_ragged up to the first iteration of kf.split
Start ==
    /\ pc = "start"
    /\ predictions' = Empty(num_samples)
    /\ probabilities' = [i \in 0..(num_samples - 1) |-> Unwritten]
    /\ rep_allocated' = should_compute_repeated_probabilities
    /\ repeated_probabilities' = [i \in 0..(num_samples - 1) |-> Unwritten]
    /\ pred_writes' = Zeros(num_samples)
    /\ proba_writes' = Zeros(num_samples)
    /\ rep_writes' = Zeros(num_samples)
    /\ IF SplitRaises(y_noisy, n_splits, ~Ragged)
       THEN /\ Raise("ValueError")
            /\ UNCHANGED <<folds, sampler_calls>>
       ELSE /\ folds' \in get_cross_validator(y_noisy, n_splits, ~Ragged)
            /\ sampler_calls' = [i \in 1..Len(folds') |-> 0]
            /\ pc' = "fold"
            /\ err' = err
    /\ UNCHANGED <<inputs, fold, le, result_le, use_dropout_calls, fit_calls, predict_calls,
                   sampler, detector>>

\* one iteration of the fold loop: the slicing, model.fit, model.predict,
\* model.predict_proba, the assertions, the sampler and the three assignments.
\* classes: the encoder model.fit leaves; idx: the rows of the Result to write;
\* L: num_labels; rp, rq, c: the rows of pred_eval and the rows and columns of
\* probas_eval; each of the sampler's T samples has the shape of probas_eval.
FoldStep(classes, idx, L, rp, rq, c) ==
    LET m == Len(idx)
        asserted == ShapeAsserted(classes, rp, rq, c)
        sampled == asserted /\ should_compute_repeated_probabilities
        probaFits == RowsFit(rq, m) /\ ColsFit(c, L)
        repWritten == sampled /\ probaFits
        predWritten == asserted /\ (sampled => probaFits) /\ RowsFit(rp, m)
        probaWritten == predWritten /\ probaFits
    IN /\ le' = classes
       /\ fit_calls' = Append(fit_calls, train_indices)
       /\ predict_calls' = Append(predict_calls, eval_indices)
       /\ sampler_calls' = IF sampled THEN [sampler_calls EXCEPT ![fold + 1] = @ + 1]
                           ELSE sampler_calls
       /\ use_dropout_calls' = IF sampled THEN use_dropout_calls + 2 * num_repetitions[1]
                               ELSE use_dropout_calls
       /\ repeated_probabilities' =
              IF repWritten
              THEN Scatter(repeated_probabilities, idx, ProbaValues(classes, rq, c, L))
              ELSE repeated_probabilities
       /\ rep_writes' = IF repWritten THEN Bump(rep_writes, idx) ELSE rep_writes
       /\ predictions' = IF predWritten
                         THEN Scatter(predictions, idx, PredValues(rp))
                         ELSE predictions
       /\ pred_writes' = IF predWritten THEN Bump(pred_writes, idx) ELSE pred_writes
       /\ probabilities' =
              IF probaWritten
              THEN Scatter(probabilities, idx, ProbaValues(classes, rq, c, L))
              ELSE probabilities
       /\ proba_writes' = IF probaWritten THEN Bump(proba_writes, idx) ELSE proba_writes
       /\ IF probaWritten
          THEN /\ fold' = fold + 1
               /\ pc' = IF fold + 1 < Len(folds) THEN "fold" ELSE "return"
               /\ err' = err
          ELSE /\ fold' = fold
               /\ Raise(IF asserted THEN "ValueError" ELSE "AssertionError")

Fold ==
    /\ pc = "fold"
    /\ LET classes == ModelFit(y_train)
           idx == score_indices
           L == num_labels
       IN \E rp \in PredRowChoices(Len(idx)) :
          \E rq \in ProbaRowChoices(Len(idx)) :
          \E c \in ColChoices(classes, rq) :
             FoldStep(classes, idx, L, rp, rq, c)
    /\ UNCHANGED <<inputs, folds, rep_allocated, result_le, sampler, detector>>

\* return Result(..., le=model.label_encoder())
Return ==
    /\ pc = "return"
    /\ result_le' = le
    /\ pc' = "done"
    /\ UNCHANGED <<inputs, err, folds, fold, le, predictions, probabilities, rep_allocated,
                   repeated_probabilities, counters, sampler, detector>>

\* the inputs of a run: flat label arrays, and ragged ones of at most MaxFlat sub-units
FlatInputs == UNION {[0..(n - 1) -> Labels] : n \in 0..MaxN}
SizeVectors ==
    {sz \in UNION {[0..(n - 1) -> 0..MaxFlat] : n \in 0..MaxN} :
        SumSeq([h \in 1..Size(sz) |-> sz[h - 1]]) <= MaxFlat}
\* ak.unflatten(f, sz)
Unflatten(f, sz) ==
    [j \in DOMAIN sz |->
        [p \in 1..sz[j] |-> f[SumSeq([h \in 1..j |-> sz[h - 1]]) + p]]]
NonDecreasing(s) == \A p \in 1..(Len(s) - 1) : s[p] <= s[p + 1]
\* The labels of a sequence enter a run as a set only (np.unique, model.fit),
\* so every sequence is listed once, with its labels in ascending order.
RaggedInputs ==
    UNION {{y \in {Unflatten(f, sz) :
                      f \in [1..SumSeq([h \in 1..Size(sz) |-> sz[h - 1]]) -> Labels]} :
               \A j \in DOMAIN y : NonDecreasing(y[j])} :
              sz \in SizeVectors}
\* num_repetitions: None, 0 and MaxRep
Repetitions == {None, Some(0), Some(MaxRep)}

\* the sampler's variables in a run of the orchestrator, which counts the
\* sampler's calls and leaves its steps to SamplerSpec
SamplerIdle ==
    /\ spc = "idle"
    /\ T = 0
    /\ t = 0
    /\ samples = <<>>
    /\ seed = <<"unset">>
    /\ dropout = FALSE
    /\ warnings = 0
    /\ returned = <<>>
    /\ calls = <<>>

\* the detectors' variables while no detector is run
DetectorIdle ==
    /\ dpc = "idle"
    /\ votes = <<>>
    /\ consensus = <<>>
    /\ ranking = <<>>
    /\ texts = <<>>
    /\ labels = <<>>
    /\ flags = <<>>

Init ==
    /\ variant \in {"flat", "ragged"}
    /\ y_noisy \in IF variant = "flat" THEN FlatInputs ELSE RaggedInputs
    /\ n_splits \in (-1)..MaxK
    /\ num_repetitions \in Repetitions
    /\ has_dropout \in BOOLEAN
    /\ pc = "new"
    /\ err = ""
    /\ folds = <<>>
    /\ fold = 0
    /\ le = <<>>
    /\ predictions = <<>>
    /\ probabilities = <<>>
    /\ rep_allocated = FALSE
    /\ repeated_probabilities = <<>>
    /\ pred_writes = <<>>
    /\ proba_writes = <<>>
    /\ rep_writes = <<>>
    /\ sampler_calls = <<>>
    /\ use_dropout_calls = 0
    /\ fit_calls = <<>>
    /\ predict_calls = <<>>
    /\ result_le = <<>>
    /\ SamplerIdle
    /\ DetectorIdle

Next ==
    \/ Construct
    \/ Start
    \/ Fold
    \/ Return

Spec == Init /\ [][Next]_vars

(***************************************************************************)
(* Claims about the splitter and the orchestrator, checked under Spec      *)
(***************************************************************************)
\* the instances the splitter sees: rows of X, sequences in run_for_ragged
NumInstances == Size(y_noisy)
\* the helper exists and the first iteration of kf.split has been asked for
SplitRan == n_splits >= 1 /\ pc \notin {"new", "start"}
\* the places (pair, position) at which index j is held by an eval set
EvalPlaces(j) ==
    {pq \in (1..Len(folds)) \X (1..NumInstances) :
        pq[2] <= Len(folds[pq[1]].eval) /\ folds[pq[1]].eval[pq[2]] = j}
EachIndexInOneEval == \A j \in 0..(NumInstances - 1) : Cardinality(EvalPlaces(j)) = 1
\* the inputs sklearn's validators accept
Splittable ==
    \/ n_splits = 1
    \/ /\ n_splits <= NumInstances
       /\ Ragged \/ \E c \in ClassesOf(y_noisy) : ClassCount(y_noisy, c) >= n_splits

\* C1 as stated: for every k >= 1 and every n >= 0, n < k and classes with
\* fewer than k members included, the pairs of the split hold every index of
\* 0..n-1 in the eval set of exactly one pair.
C1_EveryInput == SplitRan => folds # <<>> /\ EachIndexInOneEval

\* C1 amended: the pairs hold every index of 0..n-1 in the eval set of exactly
\* one pair when k = 1, or when k <= n and (for the stratified splitter) some
\* class has at least k members; for every other input the split raises
\* ValueError and yields no pair.
C1_EvalPartition ==
    SplitRan =>
        IF Splittable
        THEN Len(folds) = n_splits /\ EachIndexInOneEval
        ELSE pc = "raised" /\ err = "ValueError" /\ folds = <<>>

\* a stratified split into 2 folds of labels with a class of a single member
C1_Witness ==
    /\ pc = "fold"
    /\ ~Ragged
    /\ n_splits = 2
    /\ NumInstances = 3
    /\ \E c \in ClassesOf(y_noisy) : ClassCount(y_noisy, c) < n_splits
    /\ EachIndexInOneEval

RowsOf(a) == DOMAIN a

\* C2: when run returns a Result for n instances, every row 0..n-1 of
\* predictions and probabilities (and of repeated_probabilities when it is not
\* None) was written by exactly one fold.
C2_RowsWrittenOnce ==
    (pc = "done" /\ ~Ragged) =>
        /\ RowsOf(predictions) = 0..(NumInstances - 1)
        /\ RowsOf(probabilities) = 0..(NumInstances - 1)
        /\ \A i \in 0..(NumInstances - 1) :
              /\ pred_writes[i] = 1 /\ predictions[i] # <<>>
              /\ proba_writes[i] = 1 /\ probabilities[i] # Unwritten
              /\ rep_allocated => rep_writes[i] = 1 /\ repeated_probabilities[i] # Unwritten

\* a run of 2 folds over 3 instances with repeated probabilities has returned
C2_Witness ==
    /\ pc = "done"
    /\ ~Ragged
    /\ n_splits = 2
    /\ NumInstances = 3
    /\ rep_allocated
    /\ \A i \in 0..2 : rep_writes[i] = 1

\* the flat indices of the sub-units of sequence j, from the sizes alone
FlatRange(j) ==
    SumSeq([h \in 1..j |-> Len(y_noisy[h - 1])]) ..
        (SumSeq([h \in 1..(j + 1) |-> Len(y_noisy[h - 1])]) - 1)
\* the sequence that owns flat index f
Owner(f) == CHOOSE j \in 0..(NumInstances - 1) : f \in FlatRange(j)
Ascending(s) == \A p, q \in 1..Len(s) : p < q => s[p] < s[q]

\* C3: in run_for_ragged the flat indices a fold writes are exactly the
\* contiguous ranges of the sequences of its eval set, in their original
\* order; a sequence's sub-units are written in one fold, and after the loop
\* every flat index 0..sum(sizes)-1 has been written exactly once.
C3_WholeSequences ==
    Ragged =>
        /\ pc = "fold" =>
              /\ SeqSet(score_indices) = UNION {FlatRange(j) : j \in SeqSet(eval_indices)}
              /\ Ascending(score_indices)
        /\ pc \in {"fold", "return", "done"} =>
              \A f \in 0..(num_samples - 1) :
                 pred_writes[f] = 1 =>
                    /\ Owner(f) \in SeqSet(folds[predictions[f][1] + 1].eval)
                    /\ \A g \in FlatRange(Owner(f)) :
                          /\ pred_writes[g] = 1
                          /\ predictions[g][1] = predictions[f][1]
                          /\ f < g => predictions[f][2] <= predictions[g][2]
        /\ pc = "done" =>
              /\ RowsOf(predictions) = 0..(SumSeq([h \in 1..NumInstances |-> Len(y_noisy[h - 1])]) - 1)
              /\ \A f \in RowsOf(predictions) :
                    /\ pred_writes[f] = 1 /\ proba_writes[f] = 1
                    /\ rep_allocated => rep_writes[f] = 1

\* a ragged run of 2 folds has returned, an empty sequence and one of two
\* sub-units among its 3 sequences
C3_Witness ==
    /\ pc = "done"
    /\ Ragged
    /\ n_splits = 2
    /\ NumInstances = 3
    /\ \E j \in 0..2 : Len(y_noisy[j]) = 0
    /\ \E j \in 0..2 : Len(y_noisy[j]) = 2
    /\ \A f \in RowsOf(predictions) : pred_writes[f] = 1

\* C4 as stated: a run in which some fold's predict or predict_proba answered
\* with a number of rows other than the fold's eval indices returns no Result,
\* so in a returned Result no row of pred_eval fills two rows of predictions.
C4_NoRowRepeated ==
    (pc = "done" /\ ~Ragged) =>
        \A i, j \in RowsOf(predictions) : i # j => predictions[i] # predictions[j]

\* C5 as stated: run writes into Result.probabilities only rows of matrices
\* that have num_labels columns, the number of distinct labels of y_noisy.
C5_GlobalColumnCount ==
    (~Ragged /\ pc \in {"fold", "return", "done", "raised"}) =>
        \A i \in RowsOf(probabilities) :
            proba_writes[i] > 0 => probabilities[i].cols = num_labels

\* C6 as stated: in a returned Result, column j of every row of probabilities
\* is the probability of the class at index j of Result.le.
C6_ColumnsFollowResultLe ==
    pc = "done" => \A i \in RowsOf(probabilities) : probabilities[i].classes = result_le

\* the caller asked for repetitions and the model declares dropout
Requested == num_repetitions # None /\ num_repetitions[1] > 0 /\ has_dropout

\* C7: the sampler is invoked in a fold iff num_repetitions is not None,
\* num_repetitions > 0 and model.has_dropout(); otherwise use_dropout is never
\* called and Result.repeated_probabilities is None; when it is, the sampler
\* is invoked once in every fold.
C7_SamplerIffRequested ==
    SplitRan =>
        /\ rep_allocated <=> Requested
        /\ ~Requested =>
              /\ use_dropout_calls = 0
              /\ \A f \in 1..Len(folds) : sampler_calls[f] = 0
        /\ Requested =>
              /\ \A f \in 1..Len(folds) :
                    /\ f <= fold => sampler_calls[f] = 1
                    /\ f = fold + 1 => sampler_calls[f] \in {0, 1}
                    /\ f > fold + 1 => sampler_calls[f] = 0
              /\ use_dropout_calls = 2 * num_repetitions[1] * SumSeq(sampler_calls)
        /\ pc = "done" => fold = Len(folds)

\* a ragged run of 2 folds has returned and sampled in both
C7_Witness ==
    /\ pc = "done"
    /\ Ragged
    /\ Requested
    /\ Len(folds) = 2
    /\ \A f \in 1..2 : sampler_calls[f] = 1
    /\ use_dropout_calls > 0
    /\ num_samples >= 2
    /\ \A f \in RowsOf(rep_writes) : rep_writes[f] = 1

\* the index range 0..n-1 in ascending order
FullRange == [p \in 1..NumInstances |-> p - 1]

\* C11: for k = 1 and any n the splitter yields exactly one pair, both of
\* whose components are 0..n-1 in ascending order, so a run with n_splits = 1
\* fits once on all instances and predicts once on the same instances.
C11_SingleFullSplit ==
    (n_splits = 1 /\ pc \notin {"new", "start"}) =>
        /\ Len(folds) = 1
        /\ folds[1].train = FullRange
        /\ folds[1].eval = FullRange
        /\ pc = "fold" => fit_calls = <<>> /\ predict_calls = <<>>
        /\ pc \in {"return", "done", "raised"} =>
              fit_calls = <<FullRange>> /\ predict_calls = <<FullRange>>

\* a run with n_splits = 1 over 3 instances has returned
C11_Witness ==
    /\ pc = "done"
    /\ n_splits = 1
    /\ NumInstances = 3
    /\ fit_calls = <<FullRange>>
    /\ predict_calls = <<FullRange>>

\* C12: a fold count below 1 is rejected by the constructor: no helper comes
\* to exist, so with n_splits < 1 no cross-validator is built, nothing is
\* split or allocated and the model is never fitted or asked to predict.
C12_FoldCountRejected ==
    n_splits < 1 =>
        /\ pc \in {"new", "raised"}
        /\ pc = "raised" => err = "AssertionError"
        /\ ~ENABLED Start
        /\ folds = <<>>
        /\ fit_calls = <<>> /\ predict_calls = <<>>
        /\ sampler_calls = <<>> /\ use_dropout_calls = 0
        /\ pred_writes = <<>> /\ result_le = <<>>

\* the constructor has rejected n_splits = 0 for a run over 3 instances
C12_Witness ==
    /\ n_splits = 0
    /\ NumInstances = 3
    /\ pc = "raised"
    /\ err = "AssertionError"

(***************************************************************************)
(* obtain_repeated_probabilities_flat and                                  *)
(* obtain_repeated_probabilities_ragged_flattened, step by step.  A sample *)
(* is the flattened answer of one predict_proba call; probabilities are    *)
(* integers in units of 10^-9.                                             *)
(***************************************************************************)
Atol == 10             \* numpy's default atol = 1e-08
RtolInv == 100000      \* numpy's default rtol = 1e-05, inverted
SeedOffset == 23
RANDOM_STATE == <<"RANDOM_STATE">>
\* the same seed for every repetition
SameSeed(r) == SeedOffset
\* t + 23, the argument of set_my_seed in repetition r
RepetitionSeed(r) == r + SeedOffset
\* set_my_seed(n): the global seed is n
Seed(n) == <<"seed", n>>
\* 0, two values near 0.5 that are 5010 units apart, and 1
Probs == {0, 499999999, 500005009, 1000000000}
SampleValues == [1..SampleLen -> Probs]

\* a call, with the global seed and the model's mode it runs under or leaves
Call(op, s, d) == [op |-> op, seed |-> s, dropout |-> d]

Abs(x) == IF x < 0 THEN -x ELSE x
\* np.isclose: |a - b| <= atol + rtol * |b|
isclose(a, b) == Abs(a - b) - Atol <= Abs(b) \div RtolInv
\* np.allclose(a, b)
allclose(a, b) == \A i \in 1..Len(a) : isclose(a[i], b[i])
\* the comparison restricted to idx_a < idx_b
WarnedPairsUpper(reps) ==
    {ab \in (1..Len(reps)) \X (1..Len(reps)) :
        ab[1] < ab[2] /\ allclose(reps[ab[1]], reps[ab[2]])}
\* the (idx_a, idx_b) at which the double loop calls warnings.warn
WarnedPairs(reps) ==
    {ab \in (1..Len(reps)) \X (1..Len(reps)) :
        ab[1] # ab[2] /\ allclose(reps[ab[1]], reps[ab[2]])}
\* np.swapaxes(np.asarray(reps), 0, 1)
swapaxes(reps) == [i \in 1..SampleLen |-> [r \in 1..Len(reps) |-> reps[r][i]]]

\* for t in range(T): set_my_seed(t + 23)
SetSeed ==
    /\ spc = "loop"
    /\ t < T
    /\ seed' = Seed(RepetitionSeed(t))
    /\ calls' = Append(calls, Call("set_my_seed", seed', dropout))
    /\ spc' = "use_dropout"
    /\ UNCHANGED <<cv, detector, T, t, samples, dropout, warnings, returned>>

\* model.use_dropout(True)
DropoutOn ==
    /\ spc = "use_dropout"
    /\ dropout' = TRUE
    /\ calls' = Append(calls, Call("use_dropout", seed, dropout'))
    /\ spc' = "predict_proba"
    /\ UNCHANGED <<cv, detector, T, t, samples, seed, warnings, returned>>

\* y_probs_eval_again = model.predict_proba(X); the list is appended to
PredictProba ==
    /\ spc = "predict_proba"
    /\ \E y_probs_eval_again \in SampleValues :
          samples' = Append(samples, y_probs_eval_again)
    /\ calls' = Append(calls, Call("predict_proba", seed, dropout))
    /\ spc' = "restore_dropout"
    /\ UNCHANGED <<cv, detector, T, t, seed, dropout, warnings, returned>>

\* model.predict_proba(X) raises; nothing in the sampler catches it
PredictProbaRaises ==
    /\ spc = "predict_proba"
    /\ calls' = Append(calls, Call("predict_proba", seed, dropout))
    /\ spc' = "raised"
    /\ UNCHANGED <<cv, detector, T, t, samples, seed, dropout, warnings, returned>>

\* model.use_dropout(False), and the loop goes on
DropoutOff ==
    /\ spc = "restore_dropout"
    /\ dropout' = FALSE
    /\ calls' = Append(calls, Call("use_dropout", seed, dropout'))
    /\ t' = t + 1
    /\ spc' = "loop"
    /\ UNCHANGED <<cv, detector, T, samples, seed, warnings, returned>>

\* set_my_seed(saved_seed) after the loop
RestoreSeed ==
    /\ spc = "loop"
    /\ t = T
    /\ seed' = RANDOM_STATE
    /\ calls' = Append(calls, Call("set_my_seed", seed', dropout))
    /\ spc' = "check"
    /\ UNCHANGED <<cv, detector, T, t, samples, dropout, warnings, returned>>

\* the double loop over idx_a, idx_b
CheckSamples ==
    /\ spc = "check"
    /\ warnings' = warnings + Cardinality(WarnedPairs(samples))
    /\ spc' = "stack"
    /\ UNCHANGED <<cv, detector, T, t, samples, seed, dropout, returned, calls>>

\* np.asarray, np.swapaxes and return; an empty list has no axis 1 to swap
Stack ==
    /\ spc = "stack"
    /\ IF samples = <<>>
       THEN spc' = "raised" /\ returned' = returned
       ELSE spc' = "returned" /\ returned' = swapaxes(samples)
    /\ UNCHANGED <<cv, detector, T, t, samples, seed, dropout, warnings, calls>>

\* the orchestrator's variables while the sampler is run on its own
CallerIdle ==
    /\ y_noisy = <<>>
    /\ n_splits = 1
    /\ num_repetitions = Some(T)
    /\ has_dropout = TRUE
    /\ pc = "new"
    /\ err = ""
    /\ folds = <<>>
    /\ fold = 0
    /\ le = <<>>
    /\ predictions = <<>>
    /\ probabilities = <<>>
    /\ rep_allocated = FALSE
    /\ repeated_probabilities = <<>>
    /\ pred_writes = <<>>
    /\ proba_writes = <<>>
    /\ rep_writes = <<>>
    /\ sampler_calls = <<>>
    /\ use_dropout_calls = 0
    /\ fit_calls = <<>>
    /\ predict_calls = <<>>
    /\ result_le = <<>>

SamplerInit ==
    /\ T \in 0..MaxT
    /\ spc = "loop"
    /\ t = 0
    /\ samples = <<>>
    /\ seed \in {RANDOM_STATE, <<"unset">>}
    /\ dropout \in BOOLEAN
    /\ warnings = 0
    /\ returned = <<>>
    /\ calls = <<>>
    /\ variant \in {"flat", "ragged"}
    /\ CallerIdle
    /\ DetectorIdle

SamplerNext ==
    \/ SetSeed
    \/ DropoutOn
    \/ PredictProba
    \/ PredictProbaRaises
    \/ DropoutOff
    \/ RestoreSeed
    \/ CheckSamples
    \/ Stack

SamplerSpec == SamplerInit /\ [][SamplerNext]_vars

(***************************************************************************)
(* Claims about the sampler, checked under SamplerSpec                     *)
(***************************************************************************)
\* two distinct repetitions, in either order, that np.allclose cannot tell apart
Indistinguishable ==
    \E idx_a, idx_b \in 1..Len(samples) :
        idx_a # idx_b /\ allclose(samples[idx_a], samples[idx_b])

\* C8: the sampler warns iff two distinct repetitions are indistinguishable
\* within numerical tolerance; warning or not, it goes on to return all T
\* samples, sample t of instance i at returned[i][t]; one repetition never
\* warns.
C8_WarnIffIndistinguishable ==
    /\ spc \in {"stack", "returned"} => (warnings > 0 <=> Indistinguishable)
    /\ spc \in {"loop", "use_dropout", "predict_proba", "restore_dropout", "check"} =>
          warnings = 0
    /\ (spc = "stack" /\ T > 0) => ENABLED Stack
    /\ spc = "returned" =>
          /\ Len(samples) = T
          /\ \A i \in 1..SampleLen :
                /\ Len(returned[i]) = T
                /\ \A r \in 1..T : returned[i][r] = samples[r][i]
          /\ T = 1 => warnings = 0

\* the sampler returned after warning about a pair that is close in one order
\* of comparison only
C8_Witness ==
    /\ spc = "returned"
    /\ T >= 2
    /\ warnings > 0
    /\ \E idx_a, idx_b \in 1..T :
          /\ idx_a < idx_b
          /\ allclose(samples[idx_b], samples[idx_a])
          /\ ~allclose(samples[idx_a], samples[idx_b])
    /\ \A idx_a, idx_b \in 1..T :
          idx_a < idx_b => ~allclose(samples[idx_a], samples[idx_b])

(***************************************************************************)
(* BordaCount.score, and the ranking test_borda_count takes of its result  *)
(***************************************************************************)
\* scipy.stats.rankdata(x, method="ordinal"): 1 for the smallest, equal
\* values ranked in their order of occurrence
AscOrdinalRank(x) ==
    [c \in 1..Len(x) |->
        1 + Cardinality({j \in 1..Len(x) : x[j] < x[c] \/ (x[j] = x[c] /\ j < c)})]
\* rankdata(-x, method="ordinal"): 1 for the largest
DescOrdinalRank(x) ==
    [c \in 1..Len(x) |->
        1 + Cardinality({j \in 1..Len(x) : x[j] > x[c] \/ (x[j] = x[c] /\ j < c)})]
\* a voter's row ranked from its smallest vote
RowRanksAscending(row) == AscOrdinalRank(row)
\* a voter's row converted to ordinal ranks, 1 for the candidate it votes highest
RowRanks(row) == DescOrdinalRank(row)
\* (n - rank) points per voter, summed over the voters
BordaScore(v) ==
    LET n == Len(v[1])
    IN [c \in 1..n |-> SumSeq([r \in 1..Len(v) |-> n - RowRanks(v[r])[c]])]

\* votes = [[4, 3, 2, 1], [4, 3, 2, 1], [1, 4, 3, 2]]
TestVotes == << <<4, 3, 2, 1>>, <<4, 3, 2, 1>>, <<1, 4, 3, 2>> >>
VoteMatrices ==
    UNION {[1..v -> [1..c -> 1..MaxVote]] : v \in 1..MaxVoters, c \in 1..MaxCands}

\* scores = method.score(votes)
Score ==
    /\ dpc = "score"
    /\ consensus' = BordaScore(votes)
    /\ dpc' = "scored"
    /\ UNCHANGED <<cv, sampler, votes, ranking, texts, labels, flags>>

\* actual_ranks = rankdata(-scores, method="ordinal")
Rank ==
    /\ dpc = "scored"
    /\ ranking' = DescOrdinalRank(consensus)
    /\ dpc' = "ranked"
    /\ UNCHANGED <<cv, sampler, votes, consensus, texts, labels, flags>>

BordaInit ==
    /\ votes \in VoteMatrices \cup {TestVotes}
    /\ dpc = "score"
    /\ consensus = <<>>
    /\ ranking = <<>>
    /\ texts = <<>>
    /\ labels = <<>>
    /\ flags = <<>>
    /\ variant = "flat"
    /\ SamplerIdle
    /\ CallerIdle

BordaNext ==
    \/ Score
    \/ Rank

BordaSpec == BordaInit /\ [][BordaNext]_vars

(***************************************************************************)
(* MajorityLabelPerSurfaceFormBaseline.score                               *)
(***************************************************************************)
Forms == 1..NumForms
\* the number of positions of surface form f that carry label l
FormLabelCount(tx, lb, f, l) == Cardinality({i \in 1..Len(tx) : tx[i] = f /\ lb[i] = l})
\* the labels that are most frequent among the positions of surface form f
MostFrequent(tx, lb, f) ==
    {l \in SeqSet(lb) :
        /\ FormLabelCount(tx, lb, f, l) > 0
        /\ \A m \in SeqSet(lb) : FormLabelCount(tx, lb, f, m) <= FormLabelCount(tx, lb, f, l)}
\* a tie resolved in favour of the most frequent label met first
MajorityLabelFirstMet(tx, lb, f) ==
    LET first == CHOOSE i \in 1..Len(tx) :
                    /\ tx[i] = f /\ lb[i] \in MostFrequent(tx, lb, f)
                    /\ \A j \in 1..(i - 1) : ~(tx[j] = f /\ lb[j] \in MostFrequent(tx, lb, f))
    IN {lb[first]}
\* the majority label of surface form f: the single most frequent one, none on a tie
MajorityLabel(tx, lb, f) ==
    IF Cardinality(MostFrequent(tx, lb, f)) = 1 THEN MostFrequent(tx, lb, f) ELSE {}
\* the flag of every position, in the order of the input
MajorityFlags(tx, lb) ==
    [i \in 1..Len(tx) |->
        /\ MajorityLabel(tx, lb, tx[i]) # {}
        /\ lb[i] \notin MajorityLabel(tx, lb, tx[i])]

\* [Obama, Harvard, Harvard, Harvard, Boston] as 1, 2, 2, 2, 3
TestTexts == <<1, 2, 2, 2, 3>>
\* [PER, LOC, LOC, MISC, LOC] as 1, 2, 2, 3, 2
TestLabels == <<1, 2, 2, 3, 2>>
TokenInputs ==
    UNION {[1..n -> Forms \X Labels] : n \in 0..MaxTokens}

\* flags = detector.score(sentences, labels)
MajorityScore ==
    /\ dpc = "score"
    /\ flags' = MajorityFlags(texts, labels)
    /\ dpc' = "scored"
    /\ UNCHANGED <<cv, sampler, votes, consensus, ranking, texts, labels>>

MajorityInit ==
    /\ \/ \E tl \in TokenInputs :
             /\ texts = [i \in 1..Len(tl) |-> tl[i][1]]
             /\ labels = [i \in 1..Len(tl) |-> tl[i][2]]
       \/ texts = TestTexts /\ labels = TestLabels
    /\ dpc = "score"
    /\ flags = <<>>
    /\ votes = <<>>
    /\ consensus = <<>>
    /\ ranking = <<>>
    /\ variant = "flat"
    /\ SamplerIdle
    /\ CallerIdle

MajorityNext == MajorityScore

MajoritySpec == MajorityInit /\ [][MajorityNext]_vars

(***************************************************************************)
(* Claims about the detectors                                              *)
(***************************************************************************)
NumCands == Len(votes[1])
\* the candidates voter r places below candidate c: a smaller vote, or an
\* equal vote further right
Below(r, c) ==
    {j \in 1..NumCands :
        votes[r][j] < votes[r][c] \/ (votes[r][j] = votes[r][c] /\ j > c)}
Permutation(x) == {x[c] : c \in 1..Len(x)} = 1..Len(x)

\* C9: BordaCount.score turns every voter's row into ordinal ranks 1..n, the
\* highest vote first, gives a candidate n - rank points per voter (one per
\* candidate the voter places below it) and sums them over the voters; the
\* ranks by descending score, equal scores in order of position, are
\* [2, 1, 3, 4] for the votes [[4,3,2,1],[4,3,2,1],[1,4,3,2]].
C9_BordaRanks ==
    /\ dpc \in {"scored", "ranked"} =>
          /\ Len(consensus) = NumCands
          /\ \A r \in 1..Len(votes) : Permutation(RowRanks(votes[r]))
          /\ \A c \in 1..NumCands :
                consensus[c] = SumSeq([r \in 1..Len(votes) |-> Cardinality(Below(r, c))])
    /\ dpc = "ranked" =>
          /\ Permutation(ranking)
          /\ \A c, d \in 1..NumCands :
                (consensus[c] > consensus[d] \/ (consensus[c] = consensus[d] /\ c < d))
                    => ranking[c] < ranking[d]
          /\ votes = TestVotes => ranking = <<2, 1, 3, 4>>

\* the votes of test_borda_count have been scored and ranked
C9_Witness ==
    /\ dpc = "ranked"
    /\ votes = TestVotes
    /\ consensus = <<6, 7, 4, 1>>
    /\ ranking = <<2, 1, 3, 4>>

\* label m is the single most frequent label of the surface form at position i
UniqueMostFrequent(i, m) ==
    \A l \in SeqSet(labels) \ {m} :
        FormLabelCount(texts, labels, texts[i], l) < FormLabelCount(texts, labels, texts[i], m)

\* C10: the flags are as many as the positions and in their order; position i
\* is flagged iff its surface form has a unique most frequent label and the
\* label at i differs from it; a surface form that occurs once, or whose most
\* frequent labels tie, is never flagged; the tokens of the test are flagged
\* [False, False, False, True, False].
C10_MinorityFlagged ==
    dpc = "scored" =>
        /\ Len(flags) = Len(texts)
        /\ \A i \in 1..Len(texts) :
              /\ flags[i] <=> \E m \in SeqSet(labels) : UniqueMostFrequent(i, m) /\ labels[i] # m
              /\ Cardinality({j \in 1..Len(texts) : texts[j] = texts[i]}) = 1 => ~flags[i]
              /\ Cardinality(MostFrequent(texts, labels, texts[i])) > 1 => ~flags[i]
        /\ (texts = TestTexts /\ labels = TestLabels) =>
              flags = <<FALSE, FALSE, FALSE, TRUE, FALSE>>

\* the tokens of test_majority_label_per_surface_form_baseline have been scored
C10_Witness ==
    /\ dpc = "scored"
    /\ texts = TestTexts
    /\ labels = TestLabels
    /\ flags = <<FALSE, FALSE, FALSE, TRUE, FALSE>>

(***************************************************************************)
(* Claims about the sampler's use of the model's mode and the global seed  *)
(***************************************************************************)
\* the sampler was left by an error of predict_proba
PredictProbaFailed == spc = "raised" /\ t < T

\* C13 as stated: every predict_proba call of the sampler comes right after
\* a use_dropout(True) call and is followed by use_dropout(False), and on
\* every exit from the sampler, a normal return or an error raised by
\* predict_proba, the model's stochastic-inference mode is off.
C13_DropoutOffOnExit ==
    /\ \A i \in 1..Len(calls) :
          calls[i].op = "predict_proba" =>
              /\ calls[i].dropout
              /\ i > 1 /\ calls[i - 1].op = "use_dropout" /\ calls[i - 1].dropout
              /\ i < Len(calls) => calls[i + 1].op = "use_dropout" /\ ~calls[i + 1].dropout
    /\ (spc = "returned" \/ PredictProbaFailed) => ~dropout

\* the seed of repetition r (r = 0..T-1) as a function of r alone
SeedOf(r) == <<"seed", r + 23>>
\* the predict_proba calls of the sampler, in order
PredictProbaCalls == SelectSeq(calls, LAMBDA c : c.op = "predict_proba")

\* C14: the predict_proba call of repetition r runs under the global seed
\* r + 23, set by the set_my_seed call before it, so the seeds of the
\* repetitions are pairwise distinct and depend on r alone; once the loop is
\* over the seed is RANDOM_STATE, whatever T and the samples drawn.
C14_SeedPerRepetition ==
    /\ \A r \in 1..Len(PredictProbaCalls) : PredictProbaCalls[r].seed = SeedOf(r - 1)
    /\ \A q, r \in 1..Len(PredictProbaCalls) :
          q # r => PredictProbaCalls[q].seed # PredictProbaCalls[r].seed
    /\ \A i \in 1..Len(calls) :
          calls[i].op = "predict_proba" =>
              \E j \in 1..(i - 1) :
                  /\ calls[j].op = "set_my_seed" /\ calls[j].seed = calls[i].seed
                  /\ \A h \in (j + 1)..(i - 1) : calls[h].op = "use_dropout"
    /\ spc = "predict_proba" => seed = SeedOf(t)
    /\ spc \in {"check", "stack", "returned"} => seed = RANDOM_STATE
    /\ spc = "returned" => Len(PredictProbaCalls) = T

\* the sampler returned after 3 repetitions
C14_Witness ==
    /\ spc = "returned"
    /\ T = 3
    /\ Len(PredictProbaCalls) = 3
    /\ PredictProbaCalls[3].seed = <<"seed", 25>>
    /\ seed = RANDOM_STATE

====
